---- MODULE Spec2Model ----
(***************************************************************************)
(* A model of mcsrvstat: the request executor perform_get_request, the     *)
(* Base class that builds the two endpoint URLs, and the Server class      *)
(* whose accessors are wrapped by fetch_server_decor.                      *)
(*                                                                         *)
(* Python values are tagged records [py |-> <type name>, v |-> <content>]. *)
(* The outcome of a call is a record [exc, kind, msg, val]: kind is        *)
(* "value" (a value was returned), "none" (None was returned) or "raise"   *)
(* (exception exc left the call).                                          *)
(***************************************************************************)
EXTENDS Integers, Sequences, FiniteSets, TLC

VARIABLES
    base,       \* Server.base: the Base instance, [address, platform]
    caller,     \* the expression the caller is awaiting, and its position
    tasks,      \* the fetch coroutines of the call, one slot per endpoint
    finished,   \* the slots of the call in the order their coroutines ended
    requests,   \* every GET issued so far, in order: [url, slot] and the
                \* call (op, accessor name) whose coroutine issued it
    result,     \* what the awaited expression gave the caller
    payload,    \* (accessor-body specification) the decoded document
    applied,    \* (accessor-body specification) the accessor body applied
    ret         \* (accessor-body specification) what the body gave

vars == <<base, caller, tasks, finished, requests, result, payload, applied, ret>>

\* The most GET requests one behaviour issues.
MaxRequests == 3

----------------------------------------------------------------------------
\* Outcomes of calls.

NoVal == <<>>

Return(v) == [exc |-> "", kind |-> "value", msg |-> "", val |-> v]

ReturnNone == [exc |-> "", kind |-> "none", msg |-> "", val |-> NoVal]

Raise(e, m) == [exc |-> e, kind |-> "raise", msg |-> m, val |-> NoVal]

Pending == [exc |-> "", kind |-> "pending", msg |-> "", val |-> NoVal]

\* exceptions.py: DataNotFoundError(data_type); str() is '<data_type> data not found.'
DataNotFoundError(data_type) == Raise("DataNotFoundError", data_type \o " data not found.")

\* exceptions.py: InvalidServerTypeError
InvalidServerTypeError == Raise("InvalidServerTypeError", "Unknown server type specified.")

\* exceptions.py: UnstableInternetError
UnstableInternetError ==
    Raise("UnstableInternetError",
          "You must have a stable internet connection before proceeding to use the library.")

----------------------------------------------------------------------------
\* ext.py: the enum ServerPlatform, member name |-> value.

ServerPlatform == [java |-> "2/", bedrock |-> "bedrock/2/"]

Member(n) == [py |-> "ServerPlatform", v |-> n]

\* What a caller can pass as platform: the two members, and (the language
\* being dynamically typed) a plain string that is no member.
Platforms == {Member("java"), Member("bedrock"), [py |-> "str", v |-> "bedrock"]}

Addresses == {"play.applecraft.org", "mc.example.net:19132"}

\* main.py: Base.endpoints
endpoints == [server |-> "https://api.mcsrvstat.us/", icon |-> "https://api.mcsrvstat.us/icon/"]

\* main.py: Base.__init__ stores both arguments and does nothing else.
Base(address, platform) == [address |-> address, platform |-> platform]

\* isinstance(self.platform, ServerPlatform)
IsServerPlatform(p) == p.py = "ServerPlatform"

----------------------------------------------------------------------------
\* Decoded status documents (the JSON the API answers with).  A top-level
\* document and its "players" object are records: a key is present iff it
\* is in the DOMAIN.  The "uuid" object of "players" is a sequence of
\* <<name, uuid>> pairs, in the order the document lists them.

Motd == [raw |-> <<"A Minecraft Server">>, clean |-> <<"A Minecraft Server">>,
         html |-> <<"<span>A Minecraft Server</span>">>]

Debug == [ping |-> TRUE, query |-> FALSE, srv |-> FALSE, querymismatch |-> FALSE,
          ipinsrv |-> FALSE, cnameinsrv |-> FALSE, animatedmotd |-> FALSE,
          cachetime |-> 0, apiversion |-> 2]

Listing == [names |-> <<"WorldEdit">>, raw |-> <<"WorldEdit 7.2">>]

Common == [online |-> TRUE, ip |-> "203.0.113.7", port |-> 25565,
           hostname |-> "play.applecraft.org", debug |-> Debug]

TwoPlayers == << <<"alice", "uuid-1">>, <<"bob", "uuid-2">> >>

DocJava ==
    Common @@ [motd |-> Motd, info |-> Motd, version |-> "1.19.2", software |-> "Paper",
               plugins |-> Listing, mods |-> Listing,
               players |-> [online |-> 2, max |-> 20, uuid |-> TwoPlayers]]

DocBedrock ==
    Common @@ [motd |-> Motd, version |-> "1.19.40", software |-> "PocketMine-MP",
               serverid |-> "4538254987654", gamemode |-> "Survival",
               players |-> [online |-> 3, max |-> 10]]

DocEmptyList ==
    Common @@ [motd |-> Motd, version |-> "1.19.2",
               players |-> [online |-> 0, max |-> 20, uuid |-> << >>]]

DocEmptyPlayers == Common @@ [motd |-> Motd, software |-> "Paper", players |-> << >>]

DocNoPlayers == Common @@ [motd |-> Motd, version |-> "1.8"]

DocOffline == [online |-> FALSE, ip |-> "203.0.113.7", port |-> 25565, debug |-> Debug]

DocNoDebug == [online |-> FALSE, ip |-> "", port |-> 0, hostname |-> "mc.example.net"]

Payloads == {DocJava, DocBedrock, DocEmptyList, DocEmptyPlayers, DocNoPlayers,
             DocOffline, DocNoDebug}

----------------------------------------------------------------------------
\* What the HTTP client gives for one session.get(): an exception of the
\* client library, or a response with a status, headers and a body.

JsonBody(doc) == [fmt |-> "json", doc |-> doc]

PngBody == [fmt |-> "png", doc |-> NoVal]

HtmlBody == [fmt |-> "html", doc |-> NoVal]

Response(status, headers, body) ==
    [py |-> "response", v |-> [status |-> status, headers |-> headers, body |-> body]]

ContentType(t) == [Content_Type |-> t]

NoHeaders == << >>

Responses ==
    {Response(200, ContentType("application/json"), JsonBody(d)) : d \in Payloads}
    \cup {Response(200, ContentType("image/png"), PngBody),
          Response(200, ContentType("text/html"), HtmlBody),
          Response(200, NoHeaders, JsonBody(DocOffline)),
          Response(404, ContentType("application/json"), JsonBody(DocJava)),
          Response(404, ContentType("image/png"), PngBody),
          Response(404, NoHeaders, HtmlBody),
          Response(500, ContentType("text/html"), HtmlBody)}

\* aiohttp.ClientConnectionError and the subclasses the client raises when
\* the connection cannot be established or is lost.
ClientConnectionError == {"ClientConnectionError", "ClientConnectorError", "ServerDisconnectedError"}

Exception(cls) == [py |-> "exception", v |-> [cls |-> cls]]

ConnectionFailures == {Exception("ClientConnectorError"), Exception("ServerDisconnectedError")}

TransportResults == Responses \cup ConnectionFailures

NoTransport == [py |-> "nothing", v |-> NoVal]

\* request.read(): the raw body as bytes.
read(request) == Return([py |-> "bytes", v |-> request.body])

\* request.json(): the decoded body; the client refuses a content type
\* other than application/json, the decoder refuses a body that is no JSON.
json(request) ==
    IF request.headers.Content_Type # "application/json"
    THEN Raise("ContentTypeError", "unexpected mimetype")
    ELSE IF request.body.fmt # "json"
    THEN Raise("JSONDecodeError", "")
    ELSE Return([py |-> "dict", v |-> request.body.doc])

\* session_get with the content type looked at before the status.
session_get_type_first(t) ==
    IF t.py = "exception"
    THEN Raise(t.v.cls, "")
    ELSE LET request == t.v IN
         IF "Content_Type" \notin DOMAIN request.headers
         THEN Raise("KeyError", "Content-Type")
         ELSE IF request.headers.Content_Type = "image/png"
         THEN read(request)
         ELSE IF request.status # 200
         THEN DataNotFoundError("Request status not OK (failed).")
         ELSE json(request)

\* main.py: the body of the try block of perform_get_request.
session_get(t) ==
    IF t.py = "exception"
    THEN Raise(t.v.cls, "")
    ELSE LET request == t.v IN
         IF request.status # 200
         THEN DataNotFoundError("Request status not OK (failed).")
         ELSE IF "Content_Type" \notin DOMAIN request.headers
         THEN Raise("KeyError", "Content-Type")
         ELSE IF request.headers.Content_Type = "image/png"
         THEN read(request)
         ELSE json(request)

\* perform_get_request without its except clause.
perform_get_request_uncaught(t) == session_get(t)

\* perform_get_request with every failure swallowed: None instead of an error.
perform_get_request_swallow(t) ==
    LET r == session_get(t) IN
    IF r.kind = "raise" THEN ReturnNone ELSE r

\* main.py: perform_get_request, given what the client gave for the GET.
perform_get_request(t) ==
    LET r == session_get(t) IN
    IF r.kind = "raise" /\ r.exc \in ClientConnectionError
    THEN UnstableInternetError
    ELSE r

----------------------------------------------------------------------------
\* main.py: Base.fetch_server and Base.fetch_server_icon up to their await
\* of perform_get_request: an exception, or the URL to request.

Request(url) == [exc |-> "", kind |-> "request", msg |-> "", val |-> url]

\* str(platform) where platform.value is meant to be read
PlatformText(p) == IF IsServerPlatform(p) THEN ServerPlatform[p.v] ELSE p.v

\* fetch_server without the isinstance check.
fetch_server_unchecked(b) ==
    Request(endpoints.server \o PlatformText(b.platform) \o b.address)

\* fetch_server with the platform's path segment left out of the URL.
fetch_server_no_segment(b) ==
    IF ~IsServerPlatform(b.platform)
    THEN InvalidServerTypeError
    ELSE Request(endpoints.server \o b.address)

fetch_server(b) ==
    IF ~IsServerPlatform(b.platform)
    THEN InvalidServerTypeError
    ELSE Request(endpoints.server \o ServerPlatform[b.platform.v] \o b.address)

fetch_server_icon(b) == Request(endpoints.icon \o b.address)

----------------------------------------------------------------------------
\* The accessor bodies of Server, each applied to the data its wrapper
\* hands it (args[0]).

IsRaise(r, e) == r.kind = "raise" /\ r.exc = e

\* obj[key] on a decoded mapping
Field(obj, key) ==
    IF key \in DOMAIN obj THEN Return(obj[key]) ELSE Raise("KeyError", key)

\* args[0][key]: only a dict can be indexed by a string
Subscript(data, key) ==
    IF data.py = "dict"
    THEN Field(data.v, key)
    ELSE Raise("TypeError", "'" \o data.py \o "' object is not subscriptable")

\* The first of the outcomes rs that raised, else the value v.
Build(rs, v) ==
    IF \E i \in 1..Len(rs) : rs[i].kind = "raise"
    THEN rs[CHOOSE i \in 1..Len(rs) :
                /\ rs[i].kind = "raise"
                /\ \A j \in 1..(i - 1) : rs[j].kind # "raise"]
    ELSE Return(v)

\* key in uuid, uuid[key] on the "uuid" object
InUuid(uuid, name) == \E i \in 1..Len(uuid) : uuid[i][1] = name

UuidOf(uuid, name) == uuid[CHOOSE i \in 1..Len(uuid) : uuid[i][1] = name][2]

Player(name, uuid) == [cls |-> "Player", name |-> name, uuid |-> uuid]

is_online(data) == Subscript(data, "online")

ip(data) == Subscript(data, "ip")

port(data) == Subscript(data, "port")

hostname(data) == Subscript(data, "hostname")

\* id without its try/except: the KeyError leaves the accessor.
id_unguarded(data) == Subscript(data, "serverid")

id(data) ==
    LET r == Subscript(data, "serverid") IN
    IF IsRaise(r, "KeyError") THEN ReturnNone ELSE r

gamemode(data) ==
    LET r == Subscript(data, "gamemode") IN
    IF IsRaise(r, "KeyError") THEN ReturnNone ELSE r

get_icon(data) == Return([cls |-> "Icon", data |-> data])

get_motd(data) ==
    LET motd == Subscript(data, "motd") IN
    IF IsRaise(motd, "KeyError") THEN DataNotFoundError("Failed to fetch server MOTD.")
    ELSE IF motd.kind = "raise" THEN motd
    ELSE LET raw == Field(motd.val, "raw")
             clean == Field(motd.val, "clean")
             html == Field(motd.val, "html")
         IN  Build(<<raw, clean, html>>,
                   [cls |-> "ServerMOTD", raw |-> raw.val, clean |-> clean.val, html |-> html.val])

get_info(data) ==
    LET info == Subscript(data, "info") IN
    IF IsRaise(info, "KeyError")
    THEN DataNotFoundError("Failed to fetch server base information.")
    ELSE IF info.kind = "raise" THEN info
    ELSE LET raw == Field(info.val, "raw")
             clean == Field(info.val, "clean")
             html == Field(info.val, "html")
         IN  Build(<<raw, clean, html>>,
                   [cls |-> "ServerInfo", raw |-> raw.val, clean |-> clean.val, html |-> html.val])

get_plugins(data) ==
    LET plugins == Subscript(data, "plugins") IN
    IF IsRaise(plugins, "KeyError") THEN DataNotFoundError("Failed to fetch server plugin data.")
    ELSE IF plugins.kind = "raise" THEN plugins
    ELSE LET names == Field(plugins.val, "names")
             raw == Field(plugins.val, "raw")
         IN  Build(<<names, raw>>,
                   [cls |-> "ServerPlugins", names |-> names.val, raw |-> raw.val])

get_mods(data) ==
    LET mods == Subscript(data, "mods") IN
    IF IsRaise(mods, "KeyError") THEN DataNotFoundError("Failed to fetch server mods data.")
    ELSE IF mods.kind = "raise" THEN mods
    ELSE LET names == Field(mods.val, "names")
             raw == Field(mods.val, "raw")
         IN  Build(<<names, raw>>,
                   [cls |-> "ServerPlugins", names |-> names.val, raw |-> raw.val])

get_software(data) ==
    LET version == Subscript(data, "version")
        software == Subscript(data, "software")
        r == Build(<<version, software>>,
                   [cls |-> "ServerSoftware", version |-> version.val,
                    software |-> software.val])
    IN  IF IsRaise(r, "KeyError")
        THEN DataNotFoundError("Failed to fetch server software data.")
        ELSE r

DebugKeys == <<"ping", "query", "srv", "querymismatch", "ipinsrv", "cnameinsrv",
               "animatedmotd", "cachetime", "apiversion">>

get_debug_values(data) ==
    LET debug_values == Subscript(data, "debug") IN
    IF debug_values.kind = "raise" THEN debug_values
    ELSE Build([i \in 1..Len(DebugKeys) |-> Field(debug_values.val, DebugKeys[i])],
               [cls |-> "ServerDebugInfo",
                fields |-> [i \in 1..Len(DebugKeys) |->
                               Field(debug_values.val, DebugKeys[i]).val]])

get_player_by_name(data, player_name) ==
    LET players == Subscript(data, "players")
        uuid == IF players.kind = "raise" THEN players ELSE Field(players.val, "uuid")
    IN  IF IsRaise(uuid, "KeyError") THEN DataNotFoundError("Failed to fetch player data.")
        ELSE IF uuid.kind = "raise" THEN uuid
        ELSE IF InUuid(uuid.val, player_name)
        THEN Return(Player(player_name, UuidOf(uuid.val, player_name)))
        ELSE ReturnNone

get_player_count(data) ==
    LET players == Subscript(data, "players")
        online == IF players.kind = "raise" THEN players ELSE Field(players.val, "online")
        max == IF players.kind = "raise" THEN players ELSE Field(players.val, "max")
        r == Build(<<online, max>>,
                   [cls |-> "ServerPlayerCount", online |-> online.val, max |-> max.val])
    IN  IF IsRaise(r, "KeyError")
        THEN DataNotFoundError("Failed to fetch player count data.")
        ELSE r

get_players(data) ==
    LET players == Subscript(data, "players")
        uuid == IF players.kind = "raise" THEN players ELSE Field(players.val, "uuid")
    IN  IF IsRaise(uuid, "KeyError") THEN ReturnNone
        ELSE IF uuid.kind = "raise" THEN uuid
        ELSE Return([i \in 1..Len(uuid.val) |-> Player(uuid.val[i][1], uuid.val[i][2])])

Properties == {"is_online", "ip", "port", "hostname", "id", "gamemode"}

Methods == {"get_icon", "get_motd", "get_info", "get_plugins", "get_mods", "get_software",
            "get_debug_values", "get_player_by_name", "get_player_count", "get_players"}

Accessors == Properties \cup Methods

\* func(self, data) for the accessor body called name.
Body(name, data, player_name) ==
    CASE name = "is_online" -> is_online(data)
      [] name = "ip" -> ip(data)
      [] name = "port" -> port(data)
      [] name = "hostname" -> hostname(data)
      [] name = "id" -> id(data)
      [] name = "gamemode" -> gamemode(data)
      [] name = "get_icon" -> get_icon(data)
      [] name = "get_motd" -> get_motd(data)
      [] name = "get_info" -> get_info(data)
      [] name = "get_plugins" -> get_plugins(data)
      [] name = "get_mods" -> get_mods(data)
      [] name = "get_software" -> get_software(data)
      [] name = "get_debug_values" -> get_debug_values(data)
      [] name = "get_player_by_name" -> get_player_by_name(data, player_name)
      [] name = "get_player_count" -> get_player_count(data)
      [] name = "get_players" -> get_players(data)

----------------------------------------------------------------------------
\* main.py: Server.fetch_server_decor and the way the class body uses it.

Function(name) == [py |-> "function", v |-> name]

PyInt(n) == [py |-> "int", v |-> n]

ServerObj == [py |-> "Server", v |-> "server"]

\* a == b on two tagged values
PyEq(a, b) == a.py = b.py /\ a.v = b.v

TypeError(m) == Raise("TypeError", m)

\* fetch_server_decor(type) returns the closure decorated, which keeps type.
fetch_server_decor(type) == [py |-> "decorated", v |-> type]

\* decorated(func) returns the closure wrapper, which keeps type and func.
decorated(d, func) == [py |-> "wrapper", v |-> [type |-> d.v, func |-> func]]

\* What the class body of Server binds each accessor name to: get_icon is
\* decorated with fetch_server_decor(type=2), every other accessor with the
\* bare name fetch_server_decor (so the accessor function itself is passed
\* as type), and the first six are then made properties.
ClassAttr(name) ==
    IF name = "get_icon"
    THEN decorated(fetch_server_decor(PyInt(2)), Function(name))
    ELSE IF name \in Properties
    THEN [py |-> "property", v |-> fetch_server_decor(Function(name))]
    ELSE fetch_server_decor(Function(name))

\* The type name Python reports for a value.
TypeName(obj) == IF obj.py \in {"decorated", "wrapper"} THEN "function" ELSE obj.py

\* A function of one positional parameter called with none or with two.
ArgumentError(f, args) ==
    IF Len(args) = 0
    THEN TypeError(f \o " missing 1 required positional argument")
    ELSE TypeError(f \o " takes 1 positional argument but more were given")

\* f(*args) for a function object f
CallFunction(f, args) ==
    CASE f.py = "decorated" ->
            IF Len(args) = 1
            THEN Return(decorated(f, args[1]))
            ELSE ArgumentError("decorated()", args)
      [] f.py = "wrapper" ->
            IF Len(args) = 1
            THEN Return([py |-> "coroutine", v |-> [wrapper |-> f.v, self |-> args[1]]])
            ELSE ArgumentError("wrapper()", args)
      [] OTHER -> TypeError("'" \o f.py \o "' object is not callable")

\* server.<name>: a property calls its getter with the instance, any other
\* function of the class becomes a method bound to the instance.
GetAttr(name) ==
    LET a == ClassAttr(name) IN
    IF a.py = "property"
    THEN CallFunction(a.v, <<ServerObj>>)
    ELSE Return([py |-> "method", v |-> a])

\* obj(*args)
Call(obj, args) ==
    IF obj.py = "method"
    THEN CallFunction(obj.v, <<ServerObj>> \o args)
    ELSE CallFunction(obj, args)

\* The expression a caller awaits, by style:
\*   "attr"       await server.<name>
\*   "call"       await server.<name>()
\*   "call_self"  await server.<name>(server)
Styles == {"attr", "call", "call_self"}

Operand(name, style) ==
    LET a == GetAttr(name) IN
    IF a.kind = "raise" \/ style = "attr" THEN a
    ELSE IF style = "call" THEN Call(a.val, << >>)
    ELSE Call(a.val, <<ServerObj>>)

\* await <operand>: only a coroutine can be awaited
Awaitable(name, style) ==
    LET o == Operand(name, style) IN
    IF o.kind = "raise" THEN o
    ELSE IF o.val.py = "coroutine" THEN o
    ELSE TypeError("object " \o TypeName(o.val) \o " can't be used in 'await' expression")

\* wrapper, first line: "await self.base.fetch_server_icon() if type == 2
\* else self.base.fetch_server()".  The await binds to the first operand
\* only: with type == 2 the icon fetch is awaited, otherwise data is the
\* coroutine object of fetch_server(), which never runs.
\* wrapper testing "if type" where "if type == 2" is written: any type is true.
wrapper_awaits_icon_truthy(w) == w.type.py \in {"int", "function"}

wrapper_awaits_icon_inverted(w) == ~PyEq(w.type, PyInt(2))

wrapper_awaits_icon(w) == PyEq(w.type, PyInt(2))

UnawaitedFetch == [py |-> "coroutine", v |-> "fetch_server"]

\* wrapper, second line: return func(self, data)
wrapper_return(w, data) ==
    IF w.func.py # "function"
    THEN TypeError("'" \o w.func.py \o "' object is not callable")
    ELSE IF w.func.v = "get_player_by_name"
    THEN TypeError("get_player_by_name() missing 1 required keyword-only argument")
    ELSE Body(w.func.v, data, "")

----------------------------------------------------------------------------
\* The state machine: one caller awaiting one expression at a time; each
\* awaited fetch is a coroutine that issues its GET, is answered by the
\* network, and ends with the outcome of perform_get_request.

Slots == {"server", "icon"}

IdleTask == [pc |-> "idle", url |-> "", transport |-> NoTransport, out |-> Pending]

NoTasks == [server |-> IdleTask, icon |-> IdleTask]

\* A coroutine object that was created and is never awaited.
CreatedTask == [IdleTask EXCEPT !.pc = "created"]

\* An awaited fetch coroutine, run up to its await of perform_get_request.
Started(begin) ==
    IF begin.kind = "raise"
    THEN [IdleTask EXCEPT !.pc = "done", !.out = begin]
    ELSE [IdleTask EXCEPT !.pc = "get", !.url = begin.val]

EndedAtStart(ts) ==
    (IF ts.server.pc = "done" THEN <<"server">> ELSE << >>)
    \o (IF ts.icon.pc = "done" THEN <<"icon">> ELSE << >>)

NoCall == [op |-> "none", name |-> "", style |-> "", phase |-> "idle", mark |-> 0]

NoApplied == [name |-> "", player_name |-> ""]

CanCall(n) == caller.phase # "running" /\ Len(requests) + n <= MaxRequests

BodyIdle == payload = NoVal /\ applied = NoApplied /\ ret = Pending

Init ==
    /\ base \in {Base(a, p) : a \in Addresses, p \in Platforms}
    /\ caller = NoCall
    /\ tasks = NoTasks
    /\ finished = << >>
    /\ requests = << >>
    /\ result = Pending
    /\ BodyIdle

\* The caller begins a call: what it awaits, the coroutines the call starts,
\* and, when the call ends before any suspension, its outcome.
Begin(op, name, style, ts, res) ==
    /\ caller' = [op |-> op, name |-> name, style |-> style,
                  phase |-> IF res.kind = "pending" THEN "running" ELSE "done",
                  mark |-> Len(requests)]
    /\ tasks' = ts
    /\ finished' = EndedAtStart(ts)
    /\ result' = res
    /\ UNCHANGED <<base, requests, payload, applied, ret>>

\* await base.fetch_server()
AwaitFetchServer ==
    /\ CanCall(1)
    /\ Begin("fetch_server", "", "",
             [NoTasks EXCEPT !.server = Started(fetch_server(base))], Pending)

\* await base.fetch_server_icon()
AwaitFetchServerIcon ==
    /\ CanCall(1)
    /\ Begin("fetch_server_icon", "", "",
             [NoTasks EXCEPT !.icon = Started(fetch_server_icon(base))], Pending)

\* await server.<name>, await server.<name>() or await server.<name>(server)
AwaitAccessor(name, style) ==
    /\ CanCall(1)
    /\ LET a == Awaitable(name, style) IN
       IF a.kind = "raise"
       THEN Begin("accessor", name, style, NoTasks, a)
       ELSE LET w == a.val.v.wrapper IN
            IF wrapper_awaits_icon(w)
            THEN Begin("accessor", name, style,
                       [NoTasks EXCEPT !.icon = Started(fetch_server_icon(base))], Pending)
            ELSE Begin("accessor", name, style,
                       [NoTasks EXCEPT !.server = CreatedTask],
                       wrapper_return(w, UnawaitedFetch))

\* fetch() for status and icon together: both coroutines are started on the
\* one Base and awaited jointly.
AwaitFetch ==
    /\ CanCall(2)
    /\ Begin("fetch", "", "",
             [server |-> Started(fetch_server(base)),
              icon |-> Started(fetch_server_icon(base))], Pending)

\* session.get(endpoint): the GET of a started coroutine goes out.
SessionGet(slot) ==
    /\ tasks[slot].pc = "get"
    /\ requests' = Append(requests, [url |-> tasks[slot].url, slot |-> slot,
                                     op |-> caller.op, name |-> caller.name])
    /\ tasks' = [tasks EXCEPT ![slot].pc = "wait"]
    /\ UNCHANGED <<base, caller, finished, result, payload, applied, ret>>

\* The network answers an outstanding GET (a response or a connection
\* failure) and perform_get_request runs to its end on it.
Receive(slot) ==
    /\ tasks[slot].pc = "wait"
    /\ \E t \in TransportResults :
          tasks' = [tasks EXCEPT ![slot].pc = "done",
                                 ![slot].transport = t,
                                 ![slot].out = perform_get_request(t)]
    /\ finished' = Append(finished, slot)
    /\ UNCHANGED <<base, caller, requests, result, payload, applied, ret>>

\* The joint await: once both coroutines have ended, the error of the
\* first that failed, else both results.
fetch(ts, order) ==
    IF \E i \in 1..Len(order) : ts[order[i]].out.kind = "raise"
    THEN ts[order[CHOOSE i \in 1..Len(order) :
                    /\ ts[order[i]].out.kind = "raise"
                    /\ \A j \in 1..(i - 1) : ts[order[j]].out.kind # "raise"]].out
    ELSE Return([server |-> ts.server.out.val, icon |-> ts.icon.out.val])

\* What the awaited expression gives once its coroutines have ended.
CallResult ==
    CASE caller.op = "fetch_server" -> tasks.server.out
      [] caller.op = "fetch_server_icon" -> tasks.icon.out
      [] caller.op = "accessor" ->
            IF tasks.icon.out.kind = "raise"
            THEN tasks.icon.out
            ELSE wrapper_return(Awaitable(caller.name, caller.style).val.v.wrapper,
                                tasks.icon.out.val)
      [] caller.op = "fetch" -> fetch(tasks, finished)

Complete ==
    /\ caller.phase = "running"
    /\ \A s \in Slots : tasks[s].pc \in {"idle", "done"}
    /\ result' = CallResult
    /\ caller' = [caller EXCEPT !.phase = "done"]
    /\ UNCHANGED <<base, tasks, finished, requests, payload, applied, ret>>

Next ==
    \/ AwaitFetchServer
    \/ AwaitFetchServerIcon
    \/ AwaitFetch
    \/ \E name \in Accessors, style \in Styles : AwaitAccessor(name, style)
    \/ \E slot \in Slots : SessionGet(slot)
    \/ \E slot \in Slots : Receive(slot)
    \/ Complete

Spec == Init /\ [][Next]_vars

----------------------------------------------------------------------------
\* The accessor bodies as functions of a decoded document: a document is
\* decoded, then a body is applied to it.

PlayerNames == {"alice", "Alice", "carol"}

Decoded(doc) == [py |-> "dict", v |-> doc]

InitBody ==
    /\ base = Base("play.applecraft.org", Member("java"))
    /\ caller = NoCall
    /\ tasks = NoTasks
    /\ finished = << >>
    /\ requests = << >>
    /\ result = Pending
    /\ payload \in {Decoded(d) : d \in Payloads}
    /\ applied = NoApplied
    /\ ret = Pending

Decode(doc) ==
    /\ payload' = Decoded(doc)
    /\ applied' = NoApplied
    /\ ret' = Pending
    /\ UNCHANGED <<base, caller, tasks, finished, requests, result>>

ApplyBody(name, player_name) ==
    /\ applied' = [name |-> name, player_name |-> player_name]
    /\ ret' = Body(name, payload, player_name)
    /\ UNCHANGED <<base, caller, tasks, finished, requests, result, payload>>

NextBody ==
    \/ \E doc \in Payloads : Decode(doc)
    \/ \E name \in Accessors \ {"get_player_by_name"} : ApplyBody(name, "")
    \/ \E player_name \in PlayerNames : ApplyBody("get_player_by_name", player_name)

SpecBody == InitBody /\ [][NextBody]_vars

----------------------------------------------------------------------------
\* Properties.

\* Two outcomes agree: the same kind, the same exception, the same value.
SameOutcome(a, b) ==
    /\ a.kind = b.kind
    /\ a.exc = b.exc
    /\ (a.kind = "value" => a.val = b.val)

\* The way the documentation awaits an accessor: a property as an attribute,
\* a method as a call.
DocumentedStyle(name) == IF name \in Properties THEN "attr" ELSE "call"

AccessorDone == caller.op = "accessor" /\ caller.phase = "done"

IsResponse(t) == t.py = "response"

\* The network failed the request: no connection, or a status other than 200.
TransportFailed(t) == t.py = "exception" \/ (IsResponse(t) /\ t.v.status # 200)

\* C1: awaiting a status accessor of a Server with a valid platform, the way
\* the documentation does, completes exactly one fetch_server() request and
\* gives what the accessor body projects from that request's decoded
\* document (or the request's error).
C1_AccessorAwaitsOneFetch ==
    (/\ AccessorDone
     /\ caller.name # "get_icon"
     /\ caller.style = DocumentedStyle(caller.name)
     /\ IsServerPlatform(base.platform))
    => /\ Len(requests) = caller.mark + 1
       /\ requests[Len(requests)].slot = "server"
       /\ tasks.server.pc = "done"
       /\ SameOutcome(result,
                      IF tasks.server.out.kind = "raise"
                      THEN tasks.server.out
                      ELSE Body(caller.name, tasks.server.out.val, ""))

\* C2: whenever the response to a GET has a status other than 200,
\* perform_get_request raises DataNotFoundError, whatever the content type
\* and the body; it returns nothing.
C2_Non200Raises ==
    \A s \in Slots :
        (IsResponse(tasks[s].transport) /\ tasks[s].transport.v.status # 200)
        => /\ tasks[s].pc = "done"
           /\ tasks[s].out.kind = "raise"
           /\ tasks[s].out.exc = "DataNotFoundError"

\* C2 witness: a 404 answer with content type image/png and a body ended in
\* DataNotFoundError.
C2_Witness ==
    \E s \in Slots :
        /\ IsResponse(tasks[s].transport)
        /\ tasks[s].transport.v.status = 404
        /\ "Content_Type" \in DOMAIN tasks[s].transport.v.headers
        /\ tasks[s].transport.v.headers.Content_Type = "image/png"
        /\ tasks[s].out.exc = "DataNotFoundError"

C4_NoGetForInvalidPlatform ==
    ~IsServerPlatform(base.platform)
    => /\ requests = << >>
       /\ (caller.phase = "done" /\ caller.op \in {"fetch_server", "fetch_server_icon"})
          => (result.kind = "raise" /\ result.exc = "InvalidServerTypeError")

\* C4 (amended): with a platform that is no ServerPlatform member, every
\* status fetch fails with InvalidServerTypeError before a URL is built and
\* no GET to the status endpoint is ever sent; the icon fetch does not look
\* at the platform.
C4_StatusFetchChecksPlatform ==
    ~IsServerPlatform(base.platform)
    => /\ \A i \in 1..Len(requests) : requests[i].slot # "server"
       /\ tasks.server.url = ""
       /\ tasks.server.pc \in {"idle", "created", "done"}
       /\ (caller.phase = "done" /\ caller.op = "fetch_server")
          => (result.kind = "raise" /\ result.exc = "InvalidServerTypeError")

\* C4 witness: a status fetch on a facade built with the string "bedrock"
\* failed with InvalidServerTypeError, after an icon fetch of the same
\* facade had sent its GET.
C4_Witness ==
    /\ ~IsServerPlatform(base.platform)
    /\ caller.phase = "done"
    /\ caller.op = "fetch_server"
    /\ result.exc = "InvalidServerTypeError"
    /\ Len(requests) = 1
    /\ requests[1].slot = "icon"

\* The URLs the API documents, written out.
StatusUrl(platform_name, address) ==
    IF platform_name = "java"
    THEN "https://api.mcsrvstat.us/2/" \o address
    ELSE "https://api.mcsrvstat.us/bedrock/2/" \o address

IconUrl(address) == "https://api.mcsrvstat.us/icon/" \o address

\* C5: every GET of a status fetch goes to base + path segment of the
\* platform + address, every GET of an icon fetch to icon base + address.
C5_RequestedUrls ==
    /\ \A i \in 1..Len(requests) :
          /\ requests[i].slot = "server"
             => requests[i].url = StatusUrl(base.platform.v, base.address)
          /\ requests[i].slot = "icon" => requests[i].url = IconUrl(base.address)
    /\ \A s \in Slots :
          (tasks[s].pc \in {"wait", "done"} /\ tasks[s].out.exc # "InvalidServerTypeError")
          => \E i \in (caller.mark + 1)..Len(requests) : requests[i].slot = s

\* C5 witness: a bedrock facade has requested its status URL and its icon URL.
C5_Witness ==
    /\ base = Base("mc.example.net:19132", Member("bedrock"))
    /\ \E i \in 1..Len(requests) :
          requests[i].url = "https://api.mcsrvstat.us/bedrock/2/mc.example.net:19132"
    /\ \E i \in 1..Len(requests) :
          requests[i].url = "https://api.mcsrvstat.us/icon/mc.example.net:19132"

\* C6 (as stated): an accessor called before any fetch has completed fails,
\* and fails before anything else happens.
C6_AccessorFailsBeforeFetch ==
    (AccessorDone /\ caller.mark = 0)
    => /\ result.kind = "raise"
       /\ requests = << >>

\* C6 (amended): Server keeps no loaded state and has no unloaded-state
\* error.  An accessor call gives a value only when it is get_icon and its
\* own icon fetch has completed, and the value is built from that fetch's
\* data; every other accessor call ends in TypeError with no request sent,
\* or (get_icon) in the error of its own fetch.
C6_BodyRunsOnlyOnFetchedData ==
    AccessorDone
    => IF result.kind = "raise"
       THEN \/ result.exc = "TypeError" /\ Len(requests) = caller.mark
            \/ /\ caller.name = "get_icon"
               /\ tasks.icon.pc = "done"
               /\ SameOutcome(result, tasks.icon.out)
       ELSE /\ caller.name = "get_icon"
            /\ Len(requests) = caller.mark + 1
            /\ tasks.icon.pc = "done"
            /\ tasks.icon.out.kind = "value"
            /\ SameOutcome(result, get_icon(tasks.icon.out.val))

\* C6 witness: get_icon(), called on a fresh Server, returned an Icon.
C6_Witness ==
    /\ AccessorDone
    /\ caller.name = "get_icon"
    /\ caller.mark = 0
    /\ result.kind = "value"
    /\ result.val.cls = "Icon"

\* C7: when a status fetch and an icon fetch are awaited together and the
\* status fetch succeeds while the icon request fails, the joint fetch fails
\* with the icon fetch's error: DataNotFoundError for a status other than
\* 200, UnstableInternetError for a connection failure.
C7_JointFetchFails ==
    (/\ caller.op = "fetch"
     /\ caller.phase = "done"
     /\ tasks.server.out.kind = "value"
     /\ TransportFailed(tasks.icon.transport))
    => /\ result.kind = "raise"
       /\ result.exc = IF IsResponse(tasks.icon.transport)
                       THEN "DataNotFoundError"
                       ELSE "UnstableInternetError"

\* C7 witness: a joint fetch whose status request was answered with a
\* document and whose icon request was answered 404 failed with
\* DataNotFoundError.
C7_Witness ==
    /\ caller.op = "fetch"
    /\ caller.phase = "done"
    /\ tasks.server.out.kind = "value"
    /\ IsResponse(tasks.icon.transport)
    /\ tasks.icon.transport.v.status = 404
    /\ result.exc = "DataNotFoundError"

\* The names of the online players a document lists.
OnlineNames(doc) ==
    IF "players" \in DOMAIN doc /\ "uuid" \in DOMAIN doc.players
    THEN {doc.players.uuid[i][1] : i \in 1..Len(doc.players.uuid)}
    ELSE {}

\* C8: on a document without online players get_players() raises nothing,
\* and get_player_by_name(X) raises DataNotFoundError for every X that is not
\* among the online players of the document.
C8_PlayerLookup ==
    /\ (applied.name = "get_players" /\ OnlineNames(payload.v) = {})
       => ret.kind # "raise"
    /\ (applied.name = "get_player_by_name"
        /\ applied.player_name \notin OnlineNames(payload.v))
       => (ret.kind = "raise" /\ ret.exc = "DataNotFoundError")

\* The key each optional accessor reads.
OptionalKey == [id |-> "serverid", gamemode |-> "gamemode", get_players |-> "players",
                get_plugins |-> "plugins", get_mods |-> "mods"]

\* C9 (as stated): an optional accessor whose key is absent from the
\* document gives None and raises nothing.
C9_OptionalGivesNone ==
    /\ (applied.name \in DOMAIN OptionalKey
        /\ OptionalKey[applied.name] \notin DOMAIN payload.v)
       => ret.kind = "none"
    /\ (applied.name = "get_software"
        /\ ~({"version", "software"} \subseteq DOMAIN payload.v))
       => ret.kind # "raise"

\* The document lists no online players: "players" or its "uuid" is absent.
NoPlayerList(doc) == "players" \notin DOMAIN doc \/ "uuid" \notin DOMAIN doc.players

\* C9 (amended): applied to a document without their key, the bodies of id,
\* gamemode and get_players give None, and the bodies of get_plugins,
\* get_mods and get_software raise DataNotFoundError.
C9_OptionalByAccessor ==
    /\ (applied.name = "id" /\ "serverid" \notin DOMAIN payload.v) => ret.kind = "none"
    /\ (applied.name = "gamemode" /\ "gamemode" \notin DOMAIN payload.v) => ret.kind = "none"
    /\ (applied.name = "get_players" /\ NoPlayerList(payload.v)) => ret.kind = "none"
    /\ (applied.name = "get_plugins" /\ "plugins" \notin DOMAIN payload.v)
       => (ret.kind = "raise" /\ ret.exc = "DataNotFoundError")
    /\ (applied.name = "get_mods" /\ "mods" \notin DOMAIN payload.v)
       => (ret.kind = "raise" /\ ret.exc = "DataNotFoundError")
    /\ (applied.name = "get_software"
        /\ ~({"version", "software"} \subseteq DOMAIN payload.v))
       => (ret.kind = "raise" /\ ret.exc = "DataNotFoundError")

\* C9 witness: get_plugins applied to a document without "plugins" raised
\* DataNotFoundError.
C9_Witness ==
    /\ applied.name = "get_plugins"
    /\ "plugins" \notin DOMAIN payload.v
    /\ ret.exc = "DataNotFoundError"

\* C10: on a document without a "debug" key get_debug_values() raises
\* DataNotFoundError.
C10_DebugRequired ==
    (applied.name = "get_debug_values" /\ "debug" \notin DOMAIN payload.v)
    => (ret.kind = "raise" /\ ret.exc = "DataNotFoundError")

\* C11 (as stated): no accessor call ever issues an HTTP request: every GET
\* sent was issued by an explicit fetch call.
C11_AccessorsIssueNoGet ==
    \A i \in 1..Len(requests) : requests[i].op # "accessor"

\* C11 (amended): the only accessor call that issues a GET is get_icon(),
\* which issues exactly one, to the icon URL, on every call; every other
\* accessor call issues none.  Every other GET was issued by an explicit
\* fetch call.
C11_OnlyGetIconIssuesGet ==
    /\ \A i \in 1..Len(requests) :
          requests[i].op = "accessor"
          => /\ requests[i].name = "get_icon"
             /\ requests[i].slot = "icon"
             /\ requests[i].url = IconUrl(base.address)
    /\ AccessorDone
       => Len(requests) - caller.mark =
             IF caller.name = "get_icon" /\ caller.style = "call" THEN 1 ELSE 0

\* C11 witness: after an explicit status fetch had sent its GET, a get_icon()
\* call sent the second GET and ended.
C11_Witness ==
    /\ AccessorDone
    /\ caller.name = "get_icon"
    /\ Len(requests) = 2
    /\ requests[1].op = "fetch_server"
    /\ requests[2].op = "accessor"


\* The GETs that the perform_get_request call of a slot has sent since the
\* current call of the caller began.
SentBy(slot) ==
    {i \in (caller.mark + 1)..Len(requests) : requests[i].slot = slot}

\* One call of perform_get_request sends at most one GET: none before
\* session.get, exactly one from then on, whatever the answer was.
OneGetPerCall ==
    \A s \in Slots :
        /\ Cardinality(SentBy(s)) <= 1
        /\ tasks[s].pc \in {"idle", "created", "get"} => SentBy(s) = {}
        /\ tasks[s].pc = "wait" => Cardinality(SentBy(s)) = 1
        /\ tasks[s].pc = "done" /\ tasks[s].transport # NoTransport
           => Cardinality(SentBy(s)) = 1

\* The three outcomes of perform_get_request: a returned body,
\* DataNotFoundError, UnstableInternetError.
ThreeOutcomes(out) ==
    \/ out.kind = "value"
    \/ out.kind = "raise" /\ out.exc \in {"DataNotFoundError", "UnstableInternetError"}

\* C12: every call of perform_get_request issues at most one GET and, once
\* the client has answered or failed, has ended in exactly one of three
\* outcomes (a returned body, DataNotFoundError, UnstableInternetError), with
\* no second attempt after a non-200 response or a connection failure; and
\* before any call is made, after construction alone, no request was sent.
C12_OneGetThreeOutcomes ==
    /\ OneGetPerCall
    /\ \A s \in Slots :
          tasks[s].pc = "done" /\ tasks[s].transport # NoTransport
          => ThreeOutcomes(tasks[s].out)
    /\ caller.op = "none" => requests = << >>

============================================================================
